---- MODULE Spec2Model ----
(***************************************************************************)
(* Request pipeline of axum-middleware-mytutorial (src/src/main.rs).       *)
(*                                                                         *)
(* One request at a time travels through the service that main() builds:   *)
(* route resolution, the layers of the matched endpoint from the outermost *)
(* to the innermost, the method router, the extractors of the handler in   *)
(* argument order, the handler, and back out through the layers to the     *)
(* transport.  Strings whose characters matter (path segments, the         *)
(* rendering of an i32) are sequences of one-character strings.            *)
(***************************************************************************)
EXTENDS Integers, Sequences, FiniteSets, TLC

\* ------------------------------------------------------------------ bounds

\* Number of requests served after the first one (the server loops for ever).
MaxRequests == 1
\* Length in bytes of an ordinary, small request body.
SampleLen == 40

\* ------------------------------------------------------- program constants

\* DefaultBodyLimit::max(1024 * 1024 * 100)
BodyLimit == 1024 * 1024 * 100
\* Path<i32>: the range of the declared path parameter type.
I32Max == 2147483647
I32Min == (-I32Max) - 1

\* --------------------------------------------------------------- strings

Digits == {"0", "1", "2", "3", "4", "5", "6", "7", "8", "9"}

DigitVal(c) ==
    CASE c = "0" -> 0 [] c = "1" -> 1 [] c = "2" -> 2 [] c = "3" -> 3
      [] c = "4" -> 4 [] c = "5" -> 5 [] c = "6" -> 6 [] c = "7" -> 7
      [] c = "8" -> 8 [] c = "9" -> 9

DigitChar(d) ==
    CASE d = 0 -> "0" [] d = 1 -> "1" [] d = 2 -> "2" [] d = 3 -> "3"
      [] d = 4 -> "4" [] d = 5 -> "5" [] d = 6 -> "6" [] d = 7 -> "7"
      [] d = 8 -> "8" [] d = 9 -> "9"

SegSample  == <<"s", "a", "m", "p", "l", "e">>
SegLogin   == <<"l", "o", "g", "i", "n">>
SegProfile == <<"p", "r", "o", "f", "i", "l", "e">>
SegNope    == <<"n", "o", "p", "e">>
SegApiDocs == <<"a", "p", "i", "-", "d", "o", "c", "s">>
SegOpenApi == <<"o", "p", "e", "n", "a", "p", "i", ".", "j", "s", "o", "n">>
SegSwagger == <<"s", "w", "a", "g", "g", "e", "r", "-", "u", "i">>

\* ------------------------------------------------- i32 parsing / rendering

ParseFail == [ok |-> FALSE, value |-> 0]

\* <i32 as FromStr>::from_str on the digits after the sign: the accumulator
\* is multiplied by ten and the digit added (subtracted for a negative
\* number) with checked arithmetic; any non-digit or overflow is an error.
RECURSIVE ParseDigits(_, _, _, _)
ParseDigits(s, i, acc, neg) ==
    IF i > Len(s) THEN [ok |-> TRUE, value |-> acc]
    ELSE IF s[i] \notin Digits THEN ParseFail
    ELSE LET d == DigitVal(s[i]) IN
         IF neg
         THEN IF acc < -(I32Max \div 10) THEN ParseFail
              ELSE IF acc * 10 < I32Min + d THEN ParseFail
              ELSE ParseDigits(s, i + 1, acc * 10 - d, neg)
         ELSE IF acc > I32Max \div 10 THEN ParseFail
              ELSE IF acc * 10 > I32Max - d THEN ParseFail
              ELSE ParseDigits(s, i + 1, acc * 10 + d, neg)

\* A lenient parser that reads a character that is no digit as 0.
RECURSIVE ParseDigitsLenient(_, _, _)
ParseDigitsLenient(s, i, acc) ==
    IF i > Len(s) \/ acc > I32Max \div 100 THEN [ok |-> TRUE, value |-> acc]
    ELSE ParseDigitsLenient(s, i + 1,
            acc * 10 + (IF s[i] \in Digits THEN DigitVal(s[i]) ELSE 0))

ParseI32Lenient(s) == ParseDigitsLenient(s, 1, 0)

\* "abc".parse::<i32>(): empty, a lone sign, a non-digit and an overflow are
\* errors; one leading '+' or '-' is accepted.
ParseI32(s) ==
    IF Len(s) = 0 THEN ParseFail
    ELSE IF s[1] \in {"+", "-"}
         THEN IF Len(s) = 1 THEN ParseFail
              ELSE ParseDigits(s, 2, 0, s[1] = "-")
         ELSE ParseDigits(s, 1, 0, FALSE)

\* Decimal digits of a value v <= 0, most significant first (the magnitude
\* of i32::MIN has no positive counterpart).
RECURSIVE NegDigits(_)
NegDigits(v) ==
    LET m == v % 10
        d == IF m = 0 THEN 0 ELSE 10 - m
        q == IF m = 0 THEN v \div 10 ELSE (v \div 10) + 1
    IN IF q = 0 THEN <<DigitChar(d)>> ELSE Append(NegDigits(q), DigitChar(d))

\* Rendering that keeps a '+' in front of a positive number.
DisplaySigned(v) == IF v < 0 THEN <<"-">> \o NegDigits(v) ELSE <<"+">> \o NegDigits(-v)

\* <i32 as Display>::fmt, the "{}" of format!.
DisplayI32(v) == IF v < 0 THEN <<"-">> \o NegDigits(v) ELSE NegDigits(-v)

\* ------------------------------------------------------------------ router

Lit(seg) == [kind |-> "lit", seg |-> seg]
\* A ":path" capture segment.
Param == [kind |-> "param", seg |-> <<>>]

\* The default fallback of a router: 404 Not Found.
NotFoundFallback == [handler |-> "not_found", layers |-> <<>>]

\* Router::new()
RouterNew == [routes |-> <<>>, fallback |-> NotFoundFallback, default_fallback |-> TRUE]

\* Router::route(path, get(h)) / Router::route(path, post(h))
Route(r, pattern, method, handler) ==
    [r EXCEPT !.routes = Append(@, [pattern |-> pattern, method |-> method,
                                     handler |-> handler, layers |-> <<>>])]

\* A layer put inside the layers an endpoint already has.
WrapInside(layers, l) == <<l>> \o layers

\* Wrapping an endpoint in one more layer: the new layer is the outermost.
\* layers[1] is the innermost layer, layers[Len] the outermost.
Wrap(layers, l) == Append(layers, l)

\* Router::layer: wraps every route added so far, and the fallback.
Layer(r, l) ==
    [r EXCEPT !.routes = [i \in DOMAIN @ |-> [@[i] EXCEPT !.layers = Wrap(@, l)]],
              !.fallback.layers = Wrap(@, l)]

\* A merge that keeps the fallback of the router merged into.
MergeKeepSelf(a, b) ==
    [routes |-> a.routes \o b.routes, fallback |-> a.fallback,
     default_fallback |-> a.default_fallback /\ b.default_fallback]

\* Router::merge: the routes of both; when both routers have the default
\* fallback, the one of the merged router replaces the receiver's.
Merge(a, b) ==
    [routes |-> a.routes \o b.routes,
     fallback |-> IF b.default_fallback /\ ~a.default_fallback
                  THEN a.fallback ELSE b.fallback,
     default_fallback |-> a.default_fallback /\ b.default_fallback]

\* SwaggerUi::new("/swagger-ui").url("/api-docs/openapi.json", ApiDoc::openapi())
SwaggerUi ==
    Route(Route(RouterNew, <<Lit(SegSwagger)>>, "GET", "swagger_ui"),
          <<Lit(SegApiDocs), Lit(SegOpenApi)>>, "GET", "openapi_json")

\* let app = Router::new().route(..).route(..).layer(..).merge(..).layer(..).layer(..)
app ==
    Layer(
      Layer(
        Merge(
          Layer(
            Route(Route(RouterNew, <<>>, "GET", "ping_handler"),
                  <<Lit(SegSample), Param>>, "POST", "sample_handler"),
            "sample_middleware"),
          SwaggerUi),
        "cors"),
      "DefaultBodyLimit")

\* A pattern matches a path of the same number of segments whose literal
\* segments are equal and whose captured segments are not empty.
Matches(pattern, path) ==
    /\ Len(pattern) = Len(path)
    /\ \A i \in DOMAIN pattern :
          IF pattern[i].kind = "lit" THEN pattern[i].seg = path[i]
          ELSE path[i] # <<>>

Matching(path) == {i \in DOMAIN app.routes : Matches(app.routes[i].pattern, path)}

\* ---------------------------------------------------------------- requests

Str(k, v) == [k |-> k, t |-> "string", v |-> v]
Num(k, v) == [k |-> k, t |-> "number", v |-> v]

Bodies ==
    { [syntax |-> TRUE,  fields |-> <<Str("name", "A"), Str("message", "B")>>],
      [syntax |-> TRUE,  fields |-> <<Str("message", "A"), Num("extra", "1"), Str("name", "B")>>],
      [syntax |-> TRUE,  fields |-> <<Str("name", "A")>>],
      [syntax |-> TRUE,  fields |-> <<Num("name", "1"), Str("message", "B")>>],
      [syntax |-> FALSE, fields |-> <<>>] }

Pair(k, v) == [k |-> k, v |-> v]

Queries ==
    { <<>>,
      <<Pair("query", "Q")>>,
      <<Pair("other", "x")>>,
      <<Pair("query", "Q"), Pair("query", "R")>> }

ParamSegments ==
    { <<"4", "2">>, <<"-", "7">>, <<"+", "4", "2">>, <<"0", "4", "2">>, <<"-", "0">>,
      <<"2", "1", "4", "7", "4", "8", "3", "6", "4", "7">>,
      <<"2", "1", "4", "7", "4", "8", "3", "6", "4", "8">>,
      <<"-", "2", "1", "4", "7", "4", "8", "3", "6", "4", "8">>,
      <<"-", "2", "1", "4", "7", "4", "8", "3", "6", "4", "9">>,
      <<"a", "b", "c">>, <<"4", "x">>, <<"-">>, <<"1", ".", "5">>,
      <<>> }

Paths ==
    { <<>>, <<SegSample>>, <<SegSample, <<"1">>, <<"2">>>>,
      <<SegLogin>>, <<SegProfile>>, <<SegNope>>,
      <<SegApiDocs, SegOpenApi>> }
    \cup { <<SegSample, p>> : p \in ParamSegments }

Methods == {"GET", "POST", "OPTIONS"}

ContentTypes == {"application/json", "text/plain", "none"}

Lengths == {SampleLen, BodyLimit, BodyLimit + 1}

\* limit: the body limit extension of the request, 0 while none is set.
Requests ==
    [method : Methods, path : Paths, query : Queries, ctype : ContentTypes,
     content : Bodies, len : Lengths, limit : {0}]

NoRequest ==
    [method |-> "", path |-> <<>>, query |-> <<>>, ctype |-> "",
     content |-> [syntax |-> FALSE, fields |-> <<>>], len |-> 0, limit |-> 0]

\* --------------------------------------------------------------- responses

Response(status, ctype, text, message) ==
    [status |-> status, ctype |-> ctype, text |-> text, message |-> message,
     cors |-> FALSE]

NoResponse == Response(0, "", "", <<>>)

\* StatusCode alone, or a rejection with no body.
Empty(status) == Response(status, "none", "", <<>>)

\* A rejection of an extractor: its status and a plain text description.
Rejection(status, name) == Response(status, "text/plain", name, <<>>)

\* -------------------------------------------------------------- extractors

EmptyMap == [k \in {} |-> ""]

Insert(m, k, v) == [x \in (DOMAIN m) \cup {k} |-> IF x = k THEN v ELSE m[x]]

\* Query<HashMap<String, String>>: the pairs of the query string collected
\* into a map in order, a later pair replacing an earlier one of the same key.
RECURSIVE QueryMap(_)
QueryMap(pairs) ==
    IF pairs = <<>> THEN EmptyMap
    ELSE LET n == Len(pairs) IN
         Insert(QueryMap(SubSeq(pairs, 1, n - 1)), pairs[n].k, pairs[n].v)

\* #[derive(Deserialize)] struct RequestData { name: String, message: String }
\* read from a JSON object: unknown fields are skipped; a field of the struct
\* given twice, given a value that is no string, or missing is a data error.
RECURSIVE ReadFields(_, _, _)
ReadFields(fields, i, got) ==
    IF i > Len(fields)
    THEN IF DOMAIN got = {"name", "message"}
         THEN [err |-> "none", name |-> got["name"], message |-> got["message"]]
         ELSE [err |-> "data", name |-> "", message |-> ""]
    ELSE LET f == fields[i] IN
         IF f.k \notin {"name", "message"} THEN ReadFields(fields, i + 1, got)
         ELSE IF f.k \in DOMAIN got \/ f.t # "string"
              THEN [err |-> "data", name |-> "", message |-> ""]
              ELSE ReadFields(fields, i + 1, Insert(got, f.k, f.v))

\* serde_json::from_slice::<RequestData>
Deserialize(content) ==
    IF ~content.syntax THEN [err |-> "syntax", name |-> "", message |-> ""]
    ELSE ReadFields(content.fields, 1, EmptyMap)

\* A limit check that lets every body through.
UnlimitedBody(len, limit) == TRUE

\* http_body_util::Limited under the DefaultBodyLimit of the request: the
\* body is buffered as long as its length does not exceed the limit.
WithinLimit(len, limit) == len <= limit

\* Every failure to deserialize reported as a bad request.
JsonRejectionAllBadRequest(err) == Rejection(400, "JsonError")

\* JsonRejection -> response: a syntax error is 400 Bad Request, a data
\* error 422 Unprocessable Entity.
JsonRejection(err) ==
    IF err = "syntax" THEN Rejection(400, "JsonSyntaxError")
    ELSE Rejection(422, "JsonDataError")

\* ---------------------------------------------------------------- handlers

\* A ping that answers something else.
ping_wrong == Response(200, "text/plain", "ping", <<>>)

\* ping_handler: Ok((StatusCode::OK, "pong".to_string()).into_response())
ping_handler == Response(200, "text/plain", "pong", <<>>)

\* query.get("query") or ""
QueryParam(query) == IF "query" \in DOMAIN query THEN query["query"] ELSE ""

\* format!("path: {}, query: {}, body: {{ name: {}, message: {} }}", ..)
Format(path, query, name, message) ==
    <<"path: ", DisplayI32(path), ", query: ", query,
      ", body: { name: ", name, ", message: ", message, " }">>

\* sample_handler: Ok((StatusCode::OK, Json(ResponseData { message })))
sample_handler(path, query, body) ==
    Response(200, "application/json", "",
             Format(path, QueryParam(query), body.name, body.message))

\* ------------------------------------------------------------------- state

VARIABLES
    pc,       \* where the request in flight is
    req,      \* the request as the transport received it
    cur,      \* the request as the stage now running holds it
    served,   \* requests answered so far
    target,   \* the matched endpoint: its handler and its method
    stack,    \* the layers of the matched endpoint, innermost first
    level,    \* the layer about to run (0: inside all of them)
    trace,    \* what ran for this request, in order
    resp,     \* the response on its way out
    args,     \* what the extractors produced
    mw        \* what sample_middleware received, passed on and returned

vars == <<pc, req, cur, served, target, stack, level, trace, resp, args, mw>>

Ev(ev, who) == [ev |-> ev, who |-> who]

NoArgs == [path |-> 0, query |-> EmptyMap, body |-> [name |-> "", message |-> ""]]

NoTarget == [handler |-> "none", method |-> "none"]

NoMw == [in |-> NoRequest, calls |-> 0, forwarded |-> NoRequest,
         inner |-> NoResponse, out |-> NoResponse, result |-> "none"]

Init ==
    /\ pc = "idle"
    /\ req = NoRequest
    /\ cur = NoRequest
    /\ served = 0
    /\ target = NoTarget
    /\ stack = <<>>
    /\ level = 0
    /\ trace = <<>>
    /\ resp = NoResponse
    /\ args = NoArgs
    /\ mw = NoMw

\* Layers whose service does something with the response on its way out.
HasPost(l) == l \in {"sample_middleware", "cors"}

\* The first layer at or outside level i that has a post-phase.
RECURSIVE NextPost(_, _)
NextPost(layers, i) ==
    IF i > Len(layers) \/ HasPost(layers[i]) THEN i ELSE NextPost(layers, i + 1)

\* The endpoint has produced r: it returns through the layers around it.
Return(r) ==
    /\ resp' = r
    /\ pc' = "post"
    /\ level' = NextPost(stack, 1)

\* The request in flight is inside every layer of the matched endpoint.
AtEndpoint(h) ==
    /\ pc = "pre"
    /\ level = 0
    /\ target.handler = h

\* ----------------------------------------------------------------- actions

\* axum::serve hands the next request of a connection to the router.
Accept ==
    /\ pc = "idle"
    /\ \E r \in Requests :
          /\ req' = r
          /\ cur' = r
    /\ pc' = "resolve"
    /\ UNCHANGED <<served, target, stack, level, trace, resp, args, mw>>

\* Router::call: the path picks the endpoint, whatever the method is; no
\* match picks the fallback.  The endpoint runs inside its layers.
Resolve ==
    /\ pc = "resolve"
    /\ LET m == Matching(cur.path)
           e == IF m = {}
                THEN [handler |-> app.fallback.handler, method |-> "any",
                      layers |-> app.fallback.layers]
                ELSE LET i == CHOOSE i \in m : TRUE IN
                     [handler |-> app.routes[i].handler,
                      method |-> app.routes[i].method,
                      layers |-> app.routes[i].layers]
       IN /\ target' = [handler |-> e.handler, method |-> e.method]
          /\ stack' = e.layers
          /\ level' = Len(e.layers)
    /\ pc' = "pre"
    /\ UNCHANGED <<req, cur, served, trace, resp, args, mw>>

\* DefaultBodyLimit: puts the limit into the request's extensions and calls
\* the inner service; nothing is done to the response.
BodyLimitPre ==
    /\ pc = "pre" /\ level > 0 /\ stack[level] = "DefaultBodyLimit"
    /\ cur' = [cur EXCEPT !.limit = BodyLimit]
    /\ trace' = Append(trace, Ev("pre", "DefaultBodyLimit"))
    /\ level' = level - 1
    /\ UNCHANGED <<pc, req, served, target, stack, resp, args, mw>>

\* CorsLayer: an OPTIONS request is a preflight, answered by the layer
\* itself without calling the inner service.
CorsPreflight ==
    /\ pc = "pre" /\ level > 0 /\ stack[level] = "cors"
    /\ cur.method = "OPTIONS"
    /\ trace' = Append(trace, Ev("pre", "cors"))
    /\ resp' = [Empty(200) EXCEPT !.cors = TRUE]
    /\ pc' = "post"
    /\ level' = NextPost(stack, level + 1)
    /\ UNCHANGED <<req, cur, served, target, stack, args, mw>>

\* CorsLayer: any other request goes on to the inner service.
CorsPre ==
    /\ pc = "pre" /\ level > 0 /\ stack[level] = "cors"
    /\ cur.method # "OPTIONS"
    /\ trace' = Append(trace, Ev("pre", "cors"))
    /\ level' = level - 1
    /\ UNCHANGED <<pc, req, cur, served, target, stack, resp, args, mw>>

\* CorsLayer: the CORS headers are added to the response of the inner service.
CorsPost ==
    /\ pc = "post" /\ level <= Len(stack) /\ stack[level] = "cors"
    /\ trace' = Append(trace, Ev("post", "cors"))
    /\ resp' = [resp EXCEPT !.cors = TRUE]
    /\ level' = NextPost(stack, level + 1)
    /\ UNCHANGED <<pc, req, cur, served, target, stack, args, mw>>

\* Polling a body to its end: the stream is consumed.
ReadBody(tr, which) == Append(tr, Ev("read", which))

\* Logging a body after draining it.
ConsumeBody(tr, which) == Append(tr, Ev("read", which))

\* "{:?}" of request.body() / response.body(): the Debug view of the body
\* type; the stream is not polled.
DebugBody(tr, which) == tr

\* next.run(request): the request is moved into the next stage as it is.
Forward(r) == r

\* sample_middleware, preprocess: "Preprocess", the request line, "Handler",
\* then next.run(request).
MiddlewarePre ==
    /\ pc = "pre" /\ level > 0 /\ stack[level] = "sample_middleware"
    /\ trace' = DebugBody(Append(trace, Ev("pre", "sample_middleware")), "request")
    /\ mw' = [mw EXCEPT !.in = cur, !.calls = @ + 1, !.forwarded = Forward(cur)]
    /\ cur' = Forward(cur)
    /\ level' = level - 1
    /\ UNCHANGED <<pc, req, served, target, stack, resp, args>>

\* A middleware that answers with a status of its own.
ReturnErr(r) == [result |-> "Err", response |-> Empty(500)]

\* Ok(response)
ReturnOk(r) == [result |-> "Ok", response |-> r]

\* sample_middleware, postprocess: "Postprocess", the response line, Ok(response).
MiddlewarePost ==
    /\ pc = "post" /\ level <= Len(stack) /\ stack[level] = "sample_middleware"
    /\ trace' = DebugBody(Append(trace, Ev("post", "sample_middleware")), "response")
    /\ LET ret == ReturnOk(resp) IN
          /\ mw' = [mw EXCEPT !.inner = resp, !.out = ret.response,
                              !.result = ret.result]
          /\ resp' = ret.response
    /\ level' = NextPost(stack, level + 1)
    /\ UNCHANGED <<pc, req, cur, served, target, stack, args>>

\* The default fallback: 404 with an empty body.
NotFound ==
    /\ AtEndpoint("not_found")
    /\ trace' = Append(trace, Ev("fallback", "not_found"))
    /\ Return(Empty(404))
    /\ UNCHANGED <<req, cur, served, target, stack, args, mw>>

\* MethodRouter: a matched path whose route has no handler for the method
\* is answered 405 with an empty body.
MethodNotAllowed ==
    /\ pc = "pre" /\ level = 0
    /\ target.handler # "not_found"
    /\ cur.method # target.method
    /\ trace' = Append(trace, Ev("fallback", "method_not_allowed"))
    /\ Return(Empty(405))
    /\ UNCHANGED <<req, cur, served, target, stack, args, mw>>

\* GET /
PingHandler ==
    /\ AtEndpoint("ping_handler")
    /\ cur.method = target.method
    /\ trace' = Append(trace, Ev("handler", "ping_handler"))
    /\ Return(ping_handler)
    /\ UNCHANGED <<req, cur, served, target, stack, args, mw>>

\* GET /api-docs/openapi.json: the generated document.
ServeOpenApi ==
    /\ AtEndpoint("openapi_json")
    /\ cur.method = target.method
    /\ trace' = Append(trace, Ev("handler", "openapi_json"))
    /\ Return(Response(200, "application/json", "openapi", <<>>))
    /\ UNCHANGED <<req, cur, served, target, stack, args, mw>>

\* POST /sample/:path, first argument: Path(path): Path<i32>.
ExtractPath ==
    /\ AtEndpoint("sample_handler")
    /\ cur.method = target.method
    /\ trace' = Append(trace, Ev("extract", "Path"))
    /\ LET p == ParseI32(cur.path[2]) IN
          IF p.ok
          THEN /\ args' = [args EXCEPT !.path = p.value]
               /\ pc' = "query"
               /\ UNCHANGED <<resp, level>>
          ELSE /\ Return(Rejection(400, "FailedToDeserializePathParams"))
               /\ UNCHANGED args
    /\ UNCHANGED <<req, cur, served, target, stack, mw>>

\* Second argument: Query(query): Query<HashMap<String, String>>.
ExtractQuery ==
    /\ pc = "query"
    /\ trace' = Append(trace, Ev("extract", "Query"))
    /\ args' = [args EXCEPT !.query = QueryMap(cur.query)]
    /\ pc' = "json"
    /\ UNCHANGED <<req, cur, served, target, stack, level, resp, mw>>

\* Third argument: Json(body): Json<RequestData>.  The content type is
\* looked at first (415), then the body is buffered under the limit (413),
\* then deserialized (400 / 422).
ExtractJson ==
    /\ pc = "json"
    /\ IF cur.ctype # "application/json"
       THEN /\ trace' = Append(trace, Ev("extract", "Json"))
            /\ Return(Rejection(415, "MissingJsonContentType"))
            /\ UNCHANGED args
       ELSE /\ trace' = ReadBody(Append(trace, Ev("extract", "Json")), "request")
            /\ IF ~WithinLimit(cur.len, cur.limit)
               THEN /\ Return(Rejection(413, "LengthLimitError"))
                    /\ UNCHANGED args
               ELSE LET d == Deserialize(cur.content) IN
                    IF d.err # "none"
                    THEN /\ Return(JsonRejection(d.err))
                         /\ UNCHANGED args
                    ELSE /\ args' = [args EXCEPT !.body = [name |-> d.name,
                                                            message |-> d.message]]
                         /\ pc' = "handler"
                         /\ UNCHANGED <<resp, level>>
    /\ UNCHANGED <<req, cur, served, target, stack, mw>>

\* The body of sample_handler.
SampleHandler ==
    /\ pc = "handler"
    /\ trace' = Append(trace, Ev("handler", "sample_handler"))
    /\ Return(sample_handler(args.path, args.query, args.body))
    /\ UNCHANGED <<req, cur, served, target, stack, args, mw>>

\* The response has left every layer: the transport writes it out.
Send ==
    /\ pc = "post" /\ level > Len(stack)
    /\ trace' = ReadBody(trace, "response")
    /\ pc' = "done"
    /\ UNCHANGED <<req, cur, served, target, stack, level, resp, args, mw>>

\* The request, its response and everything made for them are dropped.
Complete ==
    /\ pc = "done"
    /\ served < MaxRequests
    /\ served' = served + 1
    /\ pc' = "idle"
    /\ req' = NoRequest
    /\ cur' = NoRequest
    /\ target' = NoTarget
    /\ stack' = <<>>
    /\ level' = 0
    /\ trace' = <<>>
    /\ resp' = NoResponse
    /\ args' = NoArgs
    /\ mw' = NoMw

Next ==
    \/ Accept
    \/ Resolve
    \/ BodyLimitPre
    \/ CorsPreflight
    \/ CorsPre
    \/ MiddlewarePre
    \/ NotFound
    \/ MethodNotAllowed
    \/ PingHandler
    \/ ServeOpenApi
    \/ ExtractPath
    \/ ExtractQuery
    \/ ExtractJson
    \/ SampleHandler
    \/ MiddlewarePost
    \/ CorsPost
    \/ Send
    \/ Complete

Spec == Init /\ [][Next]_vars

\* ------------------------------------------------- vocabulary of the claims

Count(ev, who) == Cardinality({i \in DOMAIN trace : trace[i] = Ev(ev, who)})

HandlerRan(h) == Count("handler", h) > 0

Phase(ev) == LET sel == SelectSeq(trace, LAMBDA e : e.ev = ev)
             IN [i \in DOMAIN sel |-> sel[i].who]

Reverse(s) == [i \in DOMAIN s |-> s[Len(s) + 1 - i]]

Done == pc = "done"

\* The layers in the order main() registers them on the routes of
\* ping_handler and sample_handler (main.rs lines 46, 48, 49).
Registered == <<"sample_middleware", "cors", "DefaultBodyLimit">>

RegisteredWithPost == <<"sample_middleware", "cors">>

HandlerIndexes ==
    {i \in DOMAIN trace : trace[i].ev = "handler"
                          /\ trace[i].who \in {"ping_handler", "sample_handler"}}

\* An optional sign followed by at least one decimal digit.
IsInteger(p) ==
    /\ Len(p) > 0
    /\ LET first == IF p[1] \in {"+", "-"} THEN 2 ELSE 1 IN
          /\ first <= Len(p)
          /\ \A i \in first..Len(p) : p[i] \in Digits

\* The digits of an integer without its sign and leading zeros.
RECURSIVE StripZeros(_)
StripZeros(d) ==
    IF Len(d) > 1 /\ d[1] = "0" THEN StripZeros(Tail(d)) ELSE d

Magnitude(p) == StripZeros(IF p[1] \in {"+", "-"} THEN Tail(p) ELSE p)

\* Digit strings of equal length compared as numbers.
RECURSIVE LexLeq(_, _)
LexLeq(a, b) ==
    IF a = <<>> THEN TRUE
    ELSE IF DigitVal(a[1]) # DigitVal(b[1]) THEN DigitVal(a[1]) < DigitVal(b[1])
    ELSE LexLeq(Tail(a), Tail(b))

\* The integer written p lies in -2147483648 .. 2147483647.
FitsI32(p) ==
    LET m == Magnitude(p)
        top == IF p[1] = "-"
               THEN <<"2", "1", "4", "7", "4", "8", "3", "6", "4", "8">>
               ELSE <<"2", "1", "4", "7", "4", "8", "3", "6", "4", "7">>
    IN Len(m) < 10 \/ (Len(m) = 10 /\ LexLeq(m, top))

\* The canonical decimal writing of the integer written p.
Canonical(p) ==
    LET m == Magnitude(p)
    IN IF p[1] = "-" /\ m # <<"0">> THEN <<"-">> \o m ELSE m

\* The value of the query parameter `query`: its last occurrence, or "".
QueryValue(pairs) ==
    LET at == {i \in DOMAIN pairs : pairs[i].k = "query"}
    IN IF at = {} THEN ""
       ELSE pairs[CHOOSE i \in at : \A j \in at : j <= i].v

FieldValues(content, k, t) ==
    {content.fields[i].v : i \in {j \in DOMAIN content.fields :
                                   content.fields[j].k = k /\ content.fields[j].t = t}}

\* A JSON object with one string field `name` and one string field `message`.
IsRequestData(content) ==
    /\ content.syntax
    /\ \A k \in {"name", "message"} :
          /\ Cardinality({i \in DOMAIN content.fields : content.fields[i].k = k}) = 1
          /\ FieldValues(content, k, "string") # {}

FieldOf(content, k) == CHOOSE v \in FieldValues(content, k, "string") : TRUE

SamplePost(r) ==
    /\ r.method = "POST"
    /\ Len(r.path) = 2
    /\ r.path[1] = SegSample

\* POST /sample/<p> with <p> an integer the parameter type can hold.
SamplePostI32(r) ==
    /\ SamplePost(r)
    /\ IsInteger(r.path[2])
    /\ FitsI32(r.path[2])

Echo(p, r) ==
    <<"path: ", p, ", query: ", QueryValue(r.query),
      ", body: { name: ", FieldOf(r.content, "name"),
      ", message: ", FieldOf(r.content, "message"), " }">>

JsonMessage(r) == r.ctype = "application/json" /\ r.message # <<>>

\* ------------------------------------------------------------------ claims

\* C1 as stated: a request that reaches ping_handler or sample_handler runs
\* the pre-phases of the layers in registration order (sample_middleware
\* first) and their post-phases in the reverse order (sample_middleware last).
C1_RegistrationOrder ==
    (Done /\ HandlerIndexes # {}) =>
        /\ Phase("pre") = Registered
        /\ Phase("post") = Reverse(RegisteredWithPost)

\* C1, amended: the layer registered last is the outermost.  A request that
\* reaches ping_handler or sample_handler runs the pre-phases in the reverse
\* of registration order (DefaultBodyLimit, cors, sample_middleware), the
\* handler exactly once after every pre-phase and before every post-phase,
\* and the post-phases in registration order (sample_middleware, cors).
C1_OnionOrder ==
    (Done /\ HandlerIndexes # {}) =>
        /\ Phase("pre") = Reverse(Registered)
        /\ Phase("post") = RegisteredWithPost
        /\ Cardinality(HandlerIndexes) = 1
        /\ \A h \in HandlerIndexes : \A i \in DOMAIN trace :
              /\ trace[i].ev = "pre" => i < h
              /\ trace[i].ev = "post" => i > h

C1_Witness == Done /\ HandlerRan("sample_handler")

\* C2 as stated: for every request the pipeline consumes the request body
\* exactly once and the response body is consumed exactly once.
C2_ReadExactlyOnce ==
    Done => /\ Count("read", "request") = 1
            /\ Count("read", "response") = 1

\* C2, amended: no body is ever consumed twice.  The response body is
\* consumed exactly once, by the transport; the request body is consumed
\* once when the Json extractor is reached (POST /sample/<i32> with a JSON
\* content type) and not at all otherwise.
C2_ReadAtMostOnce ==
    /\ Count("read", "request") <= 1
    /\ Count("read", "response") <= 1
    /\ Done =>
          /\ Count("read", "response") = 1
          /\ Count("read", "request") = 1
                <=> (SamplePostI32(req) /\ req.ctype = "application/json")

C2_Witness ==
    /\ Done
    /\ Count("pre", "sample_middleware") = 1
    /\ Count("post", "sample_middleware") = 1
    /\ Count("read", "request") = 1

\* C3 as stated: a request whose path matches no route is answered 404, no
\* handler is invoked and no pre- or post-phase of any layer runs.
C3_NoLayerRuns ==
    (Done /\ Matching(req.path) = {}) =>
        /\ resp.status = 404
        /\ HandlerIndexes = {}
        /\ Phase("pre") = <<>>
        /\ Phase("post") = <<>>

\* C3, amended: a request whose path matches no route invokes no handler and
\* runs neither phase of sample_middleware; the layers added after the merge
\* (DefaultBodyLimit, cors) still run around the fallback.  It is answered
\* 404 unless it is an OPTIONS request, which the cors layer answers 200.
C3_Unmatched ==
    (Done /\ Matching(req.path) = {}) =>
        /\ Phase("handler") = <<>>
        /\ Count("pre", "sample_middleware") = 0
        /\ Count("post", "sample_middleware") = 0
        /\ req.method # "OPTIONS" =>
              /\ resp.status = 404
              /\ Phase("pre") = <<"DefaultBodyLimit", "cors">>
              /\ Phase("post") = <<"cors">>
        /\ req.method = "OPTIONS" => resp.status = 200

C3_Witness == Done /\ Matching(req.path) = {} /\ resp.status = 404

\* C4 as stated: a request whose body exceeds the limit is answered 413 and
\* no handler runs for it.
C4_Always413 ==
    (Done /\ req.len > BodyLimit) =>
        /\ resp.status = 413
        /\ HandlerIndexes = {}

\* C4, amended: the limit is enforced where the body is buffered.  A POST to
\* /sample/<i32> with a JSON content type whose body exceeds the limit is
\* answered 413, sample_handler never runs for a body over the limit, and
\* only a body over the limit is answered 413.
C4_LimitAtJson ==
    Done =>
        /\ req.len > BodyLimit =>
              /\ ~HandlerRan("sample_handler")
              /\ (SamplePostI32(req) /\ req.ctype = "application/json")
                    => resp.status = 413
        /\ resp.status = 413 => req.len > BodyLimit

C4_Witness == Done /\ resp.status = 413

\* C5 as stated: a POST to /sample/<p>, <p> any integer, with a JSON body of
\* string fields name and message, is answered 200 with the message
\* "path: <p>, query: <q>, body: { name: N, message: M }".
C5_AnyInteger ==
    (/\ Done
     /\ SamplePost(req)
     /\ IsInteger(req.path[2])
     /\ req.ctype = "application/json"
     /\ req.len <= BodyLimit
     /\ IsRequestData(req.content)) =>
        /\ resp.status = 200
        /\ resp.ctype = "application/json"
        /\ resp.message = Echo(req.path[2], req)

\* C5, amended: when <p> is an integer that fits in an i32, the content type
\* is JSON and the body is within the limit, the answer is 200 with the
\* message "path: <v>, query: <q>, body: { name: N, message: M }", <v> the
\* canonical decimal writing of <p> and <q> the last value of `query`, or
\* the empty string when there is none.
C5_Echo ==
    (/\ Done
     /\ SamplePostI32(req)
     /\ req.ctype = "application/json"
     /\ req.len <= BodyLimit
     /\ IsRequestData(req.content)) =>
        /\ resp.status = 200
        /\ resp.ctype = "application/json"
        /\ resp.message = Echo(Canonical(req.path[2]), req)
        /\ HandlerRan("sample_handler")

C5_Witness ==
    /\ Done
    /\ HandlerRan("sample_handler")
    /\ req.query = <<>>
    /\ resp.message[2] = <<"4", "2">>
    /\ resp.message[4] = ""

\* C6: a POST to /sample/<p> whose segment <p> is not an integer is answered
\* 400 whatever the query and the body are; the route is matched (no 404)
\* and the body of sample_handler does not run.
C6_NonInteger400 ==
    (/\ Done
     /\ SamplePost(req)
     /\ req.path[2] # <<>>
     /\ ~IsInteger(req.path[2])) =>
        /\ resp.status = 400
        /\ target.handler = "sample_handler"
        /\ Count("extract", "Path") = 1
        /\ ~HandlerRan("sample_handler")

C6_Witness ==
    /\ Done
    /\ SamplePost(req)
    /\ req.path[2] = <<"a", "b", "c">>
    /\ req.ctype = "application/json"
    /\ IsRequestData(req.content)
    /\ resp.status = 400

\* C7 as stated: for a POST to /sample/<i32>, every failure to decode the
\* body (malformed JSON, a missing or non-string field, a missing or
\* non-JSON content type) is answered 400 and sample_handler does not run.
C7_DecodeFailure400 ==
    (/\ Done
     /\ SamplePostI32(req)
     /\ req.len <= BodyLimit
     /\ (req.ctype # "application/json" \/ ~IsRequestData(req.content))) =>
        /\ resp.status = 400
        /\ ~HandlerRan("sample_handler")

\* C7, amended: for a POST to /sample/<i32> with a body within the limit,
\* a missing or non-JSON content type is answered 415, malformed JSON 400,
\* and a missing or non-string field 422; sample_handler runs in none of
\* these cases.
C7_DecodeFailure ==
    (/\ Done
     /\ SamplePostI32(req)
     /\ req.len <= BodyLimit
     /\ (req.ctype # "application/json" \/ ~IsRequestData(req.content))) =>
        /\ ~HandlerRan("sample_handler")
        /\ resp.status = IF req.ctype # "application/json" THEN 415
                         ELSE IF ~req.content.syntax THEN 400
                         ELSE 422

C7_Witness == Done /\ resp.status = 422 /\ Count("read", "request") = 1

\* C8: every response with status 400, 404, 413 or 500 has a JSON body of
\* the form { message: string }.
C8_FailureBodyIsJson ==
    (Done /\ resp.status \in {400, 404, 413, 500}) => JsonMessage(resp)

\* C9 as stated: GET and POST to /login and /profile are answered 200 with
\* an empty body, and GET / is answered 200 "pong" every time.
C9_StubsSucceed ==
    (Done /\ req.method \in {"GET", "POST"}) =>
        /\ req.path \in {<<SegLogin>>, <<SegProfile>>} =>
              /\ resp.status = 200
              /\ resp.text = ""
              /\ resp.message = <<>>
        /\ (req.method = "GET" /\ req.path = <<>>) =>
              /\ resp.status = 200
              /\ resp.text = "pong"

\* C9, amended: GET / is answered 200 "pong" on every repetition; /login
\* and /profile are no routes of the router, and GET and POST to them are
\* answered 404 with an empty body.
C9_Ping ==
    (Done /\ req.method \in {"GET", "POST"}) =>
        /\ req.path \in {<<SegLogin>>, <<SegProfile>>} =>
              /\ resp.status = 404
              /\ resp.text = ""
              /\ resp.message = <<>>
        /\ (req.method = "GET" /\ req.path = <<>>) =>
              /\ resp.status = 200
              /\ resp.text = "pong"
              /\ resp.message = <<>>

C9_Witness ==
    /\ Done
    /\ served > 0
    /\ req.method = "GET"
    /\ req.path = <<>>
    /\ resp.status = 200

\* C10: sample_middleware calls the next stage exactly once, with the
\* request it received, and returns Ok with the response the next stage
\* produced, unchanged; it never returns Err.
C10_Observer ==
    /\ mw.calls <= 1
    /\ mw.calls = 1 => (mw.forwarded = mw.in /\ mw.in # NoRequest)
    /\ mw.result # "none" =>
          /\ mw.result = "Ok"
          /\ mw.calls = 1
          /\ mw.out = mw.inner
    /\ (Done /\ Count("pre", "sample_middleware") = 1) =>
          /\ mw.result = "Ok"
          /\ mw.in = [req EXCEPT !.limit = BodyLimit]
          /\ cur = mw.in
          /\ resp = [mw.inner EXCEPT !.cors = TRUE]

C10_Witness ==
    /\ Done
    /\ mw.result = "Ok"
    /\ mw.inner.status = 400
    /\ mw.out.text = "FailedToDeserializePathParams"

====
